---- MODULE Spec2Model ----
(***************************************************************************)
(* Model of src/lib/fetcher.tsx (the useFetcher hook and the two           *)
(* module-level aggregate promises fetchProduction / fetchDevelopment).    *)
(*                                                                         *)
(* JavaScript values are encoded as follows.                               *)
(*   - A JSON/JS object that ends up in a slice is a record                *)
(*     [body, error]: body names the payload fields (everything but        *)
(*     `error`), error is the value of the object's `error` field.         *)
(*   - body is a pair <<key, n>>: <<k, 0>> is the payload of defaults[k],  *)
(*     <<k, 1>> is a payload loaded for kind k, NullBody means the value   *)
(*     is not an object but null, NoBody means there is no value.          *)
(*   - error is a string: false stands for the boolean false, undefined    *)
(*     for an absent field, any other string is that string.               *)
(*   - A promise is a record [state, body, error]; when rejected, error    *)
(*     holds the message of the Error it was rejected with.                *)
(***************************************************************************)
EXTENDS Naturals, Sequences, FiniteSets

\* ---------------------------------------------------------------- bounds
MaxRefresh == 1      \* invocations of callback after the one made on mount
MaxClicks == 2       \* clicks on the buttons of the settings modal

\* ------------------------------------------------------- program constants
errorMessage == "Failed to load data."

\* The fixed order of the two Promise.all arrays and of the destructuring.
Kinds == <<"apps", "bookmark", "searchProvider", "theme", "imprint">>
KindSet == {Kinds[i] : i \in 1..Len(Kinds)}
IndexOf(k) == CHOOSE i \in 1..Len(Kinds) : Kinds[i] = k

false == "<false>"
undefined == "<undefined>"
NullBody == <<"null", 0>>
NoBody == <<"none", 0>>

\* Messages of the errors the platform raises itself.
NetworkMessage == "Failed to fetch"
SyntaxMessage == "Unexpected token"
StrayError == "stray"

Truthy(e) == e \notin {false, undefined, ""}

defaults ==
  [app      |-> [body |-> <<"app", 0>>,      error |-> false],
   bookmark |-> [body |-> <<"bookmark", 0>>, error |-> false],
   search   |-> [body |-> <<"search", 0>>,   error |-> false],
   theme    |-> [body |-> <<"theme", 0>>,    error |-> false],
   imprint  |-> [body |-> <<"imprint", 0>>,  error |-> false]]

\* The entry of defaults that the state variable of kind k is created with
\* (useState(defaults.app) and so on).
InitialSlice(k) ==
  CASE k = "apps"           -> defaults.app
    [] k = "bookmark"       -> defaults.bookmark
    [] k = "searchProvider" -> defaults.search
    [] k = "theme"          -> defaults.theme
    [] k = "imprint"        -> defaults.imprint

\* ------------------------------------------------------------- promises
Pending == [state |-> "pending", body |-> NoBody, error |-> undefined]
Fulfilled(v) == [state |-> "fulfilled", body |-> v.body, error |-> v.error]
Rejected(message) == [state |-> "rejected", body |-> NoBody, error |-> message]

\* What a GET to /data/<kind>.json can end in: the request itself fails
\* ("networkError"), a Response with a non-success status arrives ("badStatus",
\* its body is never read), or a Response with a success status arrives whose
\* body text is not JSON ("malformed"), is the JSON null, is a JSON object,
\* or is a JSON object that has a truthy field named error.
FetchOutcomes ==
  {"networkError", "badStatus", "malformed", "null", "object", "objectWithError"}

\* JSON.parse of a body text of kind k.
Parse(k, text) ==
  CASE text = "null"            -> [body |-> NullBody, error |-> undefined]
    [] text = "object"          -> [body |-> <<k, 1>>, error |-> undefined]
    [] text = "objectWithError" -> [body |-> <<k, 1>>, error |-> StrayError]

\* response.json()
json(k, response) ==
  IF response.text = "malformed"
    THEN Rejected(SyntaxMessage)
    ELSE Fulfilled(Parse(k, response.text))

handleResponse(k, response) ==
  IF response.ok THEN json(k, response) ELSE Rejected(errorMessage)

handleError(status, message) ==
  CASE status = "apps"           -> [defaults.app EXCEPT !.error = message]
    [] status = "bookmark"       -> [defaults.bookmark EXCEPT !.error = message]
    [] status = "searchProvider" -> [defaults.search EXCEPT !.error = message]
    [] status = "theme"          -> [defaults.theme EXCEPT !.error = message]
    [] status = "imprint"        -> [defaults.imprint EXCEPT !.error = message]

\* fetch(url): the promise the request settles to.
FetchPromise(outcome) ==
  IF outcome = "networkError" THEN Rejected(NetworkMessage)
  ELSE [state |-> "fulfilled", ok |-> outcome # "badStatus", text |-> outcome]

\* p.then(handleResponse)
ThenHandleResponse(k, p) ==
  IF p.state = "fulfilled" THEN handleResponse(k, p) ELSE p

\* A chain without the catch: a rejection stays a rejection.
NoCatch(status, p) == p

\* p.catch((error) => handleError(status, error))
CatchHandleError(status, p) ==
  IF p.state = "rejected" THEN Fulfilled(handleError(status, p.error)) ELSE p

\* One element of the fetchProduction array, once its request has ended.
FetchElement(k, outcome) ==
  CatchHandleError(k, ThenHandleResponse(k, FetchPromise(outcome)))

\* One element of the fetchDevelopment array: the imported JSON module.
ImportElement(k) == Fulfilled([body |-> <<k, 1>>, error |-> undefined])

\* Promise.all over the five element promises elems (a function on KindSet).
PromiseAll(elems) ==
  IF \E k \in KindSet : elems[k].state = "rejected" THEN "rejected"
  ELSE IF \A k \in KindSet : elems[k].state = "fulfilled" THEN "fulfilled"
  ELSE "pending"

\* ---------------------------------------------------------------- state
VARIABLES
  inProduction,   \* process.env.NODE_ENV === "production"
  phase,          \* "unloaded" | "loaded" | "rendered" | "mounted"
  getIssued,      \* per kind: GET requests issued to /data/<kind>.json
  request,        \* per kind: "none", "inflight" or how the GET ended
  imported,       \* per kind: import() calls made for ../data/<kind>.json
  fetched,        \* per kind: the element promise of fetchProduction
  packaged,       \* per kind: the element promise of fetchDevelopment
  slices,         \* per kind: the state variable (appData, bookmarkData, ...)
  calls,          \* invocations of callback so far
  reactions,      \* cycles whose then-callback has not run yet, oldest first
  cycleOf,        \* per kind: the cycle that last wrote the slice (0: none)
  repairedAt,     \* 0, or the value of calls when the server was repaired
  effects,        \* runs of the useEffect callback so far
  settledOrder,   \* the cycles whose then-callback has run, in that order
  overlapped,     \* callback was invoked while an earlier cycle was waiting
  newLightTheme,  \* Settings: the pending selection for the light mode
  newDarkTheme,   \* Settings: the pending selection for the dark mode
  browser,        \* persisted themes, calls of setTheme, calls of reload
  applyClicks,    \* clicks on Apply so far
  refreshClicks   \* clicks on Refresh so far

fetcherVars == <<inProduction, phase, getIssued, request, imported, fetched,
                 packaged, slices, calls, reactions, cycleOf, repairedAt,
                 effects, settledOrder, overlapped>>

settingsVars == <<newLightTheme, newDarkTheme, browser, applyClicks,
                  refreshClicks>>

vars == <<fetcherVars, settingsVars>>

\* The aggregate promise callback selects.
Selected == IF inProduction THEN fetched ELSE packaged

Init ==
  /\ inProduction \in BOOLEAN
  /\ phase = "unloaded"
  /\ getIssued = [k \in KindSet |-> 0]
  /\ request = [k \in KindSet |-> "none"]
  /\ imported = [k \in KindSet |-> 0]
  /\ fetched = [k \in KindSet |-> Pending]
  /\ packaged = [k \in KindSet |-> Pending]
  /\ slices = [k \in KindSet |-> InitialSlice(k)]
  /\ calls = 0
  /\ reactions = <<>>
  /\ cycleOf = [k \in KindSet |-> 0]
  /\ repairedAt = 0
  /\ effects = 0
  /\ settledOrder = <<>>
  /\ overlapped = FALSE
  /\ newLightTheme = undefined
  /\ newDarkTheme = undefined
  /\ browser = [light |-> "initial", dark |-> "initial", setThemeCalls |-> 0,
                reloads |-> 0]
  /\ applyClicks = 0
  /\ refreshClicks = 0

\* ------------------------------------------------- the then-callback
\* The object a settled element promise holds.
Value(p) == [body |-> p.body, error |-> p.error]

\* Reading v.error throws a TypeError when v is null.
Throws(v) == v.body = NullBody

\* (v.error) ? setX(v) : setX({ ...v, error: false }) : the argument of setX.
SetterArg(v) == IF Truthy(v.error) THEN v ELSE [v EXCEPT !.error = false]

\* Position of the first of the five statements that throws (6: none does).
FirstThrow(elems) ==
  IF \E i \in 1..Len(Kinds) : Throws(Value(elems[Kinds[i]]))
    THEN CHOOSE i \in 1..Len(Kinds) :
           /\ Throws(Value(elems[Kinds[i]]))
           /\ \A j \in 1..(i - 1) : ~Throws(Value(elems[Kinds[j]]))
    ELSE Len(Kinds) + 1

\* The kinds whose setter is called before the callback ends.
Written(elems) == {k \in KindSet : IndexOf(k) < FirstThrow(elems)}

\* A race instead of a join: f may run once any element is fulfilled.
ThenReadyAny(elems) == \E k \in KindSet : elems[k].state = "fulfilled"

\* Promise.all(...).then(f): f may run once the aggregate is fulfilled.
ThenReady(elems) == PromiseAll(elems) = "fulfilled"

\* -------------------------------------------------------------- actions
\* A sequential load: only the first element is evaluated at module load.
IssuedFirstOnly == {Kinds[1]}

\* The elements of the two arrays that are evaluated, one after the other and
\* without waiting, when the module is evaluated: all five.
IssuedAtLoad == KindSet

\* Evaluation of the module: both aggregates are built, so the five GETs
\* are issued and the five import() calls are made, whatever inProduction is.
ModuleLoad ==
  /\ UNCHANGED settingsVars
  /\ phase = "unloaded"
  /\ phase' = "loaded"
  /\ getIssued' = [k \in KindSet |->
                     IF k \in IssuedAtLoad THEN getIssued[k] + 1
                     ELSE getIssued[k]]
  /\ imported' = [k \in KindSet |->
                    IF k \in IssuedAtLoad THEN imported[k] + 1
                    ELSE imported[k]]
  /\ request' = [k \in KindSet |->
                   IF k \in IssuedAtLoad THEN "inflight" ELSE request[k]]
  /\ UNCHANGED <<inProduction, fetched, packaged, slices, calls, reactions,
                 cycleOf, repairedAt, effects, settledOrder, overlapped>>

\* First render of the component using the hook: the five useState calls.
Render ==
  /\ UNCHANGED settingsVars
  /\ phase = "loaded"
  /\ phase' = "rendered"
  /\ slices' = [k \in KindSet |-> InitialSlice(k)]
  /\ UNCHANGED <<inProduction, getIssued, request, imported, fetched, packaged,
                 calls, reactions, cycleOf, repairedAt, effects, settledOrder,
                 overlapped>>

\* A then that cancels the reactions that are waiting.
AttachReplacing(rs, id) == <<id>>

\* promise.then(f) on a promise with the waiting reactions rs: f is added
\* behind them.
Attach(rs, id) == Append(rs, id)

\* callback(): attaches one then-reaction to the selected aggregate. It
\* issues no request and makes no import.
Callback ==
  /\ calls' = calls + 1
  /\ reactions' = Attach(reactions, calls + 1)
  /\ overlapped' = (overlapped \/ reactions # <<>>)
  /\ UNCHANGED <<inProduction, getIssued, request, imported, fetched, packaged,
                 slices, cycleOf, repairedAt, settledOrder>>

\* useEffect(() => callback(), [callback]) after the first render.
UseEffect ==
  /\ UNCHANGED settingsVars
  /\ phase = "rendered"
  /\ phase' = "mounted"
  /\ effects' = effects + 1
  /\ Callback

\* A consumer invokes the returned callback.
Refresh ==
  /\ UNCHANGED settingsVars
  /\ phase = "mounted"
  /\ calls < 1 + MaxRefresh
  /\ UNCHANGED <<phase, effects>>
  /\ Callback

\* The GET for kind k ends and its then/catch chain runs. (Only the elements
\* of the aggregate that callback selects are followed: nothing reads the
\* other aggregate.)
FetchSettle(k, outcome) ==
  /\ UNCHANGED settingsVars
  /\ inProduction
  /\ request[k] = "inflight"
  /\ request' = [request EXCEPT ![k] = outcome]
  /\ fetched' = [fetched EXCEPT ![k] = FetchElement(k, outcome)]
  /\ UNCHANGED <<inProduction, phase, getIssued, imported, packaged, slices,
                 calls, reactions, cycleOf, repairedAt, effects, settledOrder,
                 overlapped>>

\* The import() for kind k resolves.
ImportSettle(k) ==
  /\ UNCHANGED settingsVars
  /\ phase # "unloaded"
  /\ ~inProduction
  /\ packaged[k].state = "pending"
  /\ packaged' = [packaged EXCEPT ![k] = ImportElement(k)]
  /\ UNCHANGED <<inProduction, phase, getIssued, request, imported, fetched,
                 slices, calls, reactions, cycleOf, repairedAt, effects,
                 settledOrder, overlapped>>

\* A callback that is a new function on every render.
EffectDepsChangedAlways == TRUE

\* The dependency list [callback] of the effect differs from the one of the
\* previous render: never, useCallback(..., []) returns the same function.
EffectDepsChanged == FALSE

\* The then-callback of the oldest waiting cycle runs: five setter calls in
\* the fixed order, ended early by the first statement that throws. A setter
\* call makes the component render again, and the effect runs again when its
\* dependencies changed.
RunReaction ==
  /\ UNCHANGED settingsVars
  /\ reactions # <<>>
  /\ ThenReady(Selected)
  /\ LET cycle == Head(reactions)
         done == Written(Selected)
         again == done # {} /\ EffectDepsChanged
     IN /\ slices' = [k \in KindSet |->
                        IF k \in done THEN SetterArg(Value(Selected[k]))
                        ELSE slices[k]]
        /\ cycleOf' = [k \in KindSet |->
                        IF k \in done THEN cycle ELSE cycleOf[k]]
        /\ settledOrder' = Append(settledOrder, cycle)
        /\ effects' = IF again THEN effects + 1 ELSE effects
        /\ calls' = IF again THEN calls + 1 ELSE calls
        /\ reactions' = IF again THEN Attach(Tail(reactions), calls + 1)
                        ELSE Tail(reactions)
  /\ UNCHANGED <<inProduction, phase, getIssued, request, imported, fetched,
                 packaged, repairedAt, overlapped>>

\* Environment: after a load failure has been stored in a slice, the server
\* is repaired: from now on every /data/<kind>.json is answered with a valid
\* object.
Repair ==
  /\ UNCHANGED settingsVars
  /\ inProduction
  /\ repairedAt = 0
  /\ \E k \in KindSet :
       /\ request[k] \in {"networkError", "badStatus", "malformed"}
       /\ cycleOf[k] > 0
  /\ repairedAt' = calls
  /\ UNCHANGED <<inProduction, phase, getIssued, request, imported, fetched,
                 packaged, slices, calls, reactions, cycleOf, effects,
                 settledOrder, overlapped>>

\* ------------------------------------------------- the settings modal
\* The value attributes of the themes offered (the list of the test), and
\* the values a change event of a select element may carry.
ThemeValues == {"0", "1"}
SelectValues == {"0", "1", "5"}

\* The Select component hands onChange the item of the list whose value is
\* the one of the event, undefined when there is none.
Find(items, value) == IF value \in items THEN value ELSE undefined

\* window.location.reload()
Reload(st) == [st EXCEPT !.reloads = @ + 1]

\* setTheme(mode, theme): persists the theme for the mode and reloads the
\* page.
setTheme(st, mode, theme) ==
  Reload([st EXCEPT ![mode] = theme, !.setThemeCalls = @ + 1])

\* An Apply that forgets the dark mode.
onClickApplyLightOnly(st, light, dark) ==
  IF light # undefined THEN setTheme(st, "light", light) ELSE st

\* onClick of the Apply button.
onClickApply(st, light, dark) ==
  LET afterLight == IF light # undefined THEN setTheme(st, "light", light)
                    ELSE st
  IN IF dark # undefined THEN setTheme(afterLight, "dark", dark)
     ELSE afterLight

\* A Refresh that does not reload.
onClickRefreshNothing(st, light, dark) == st

\* onClick of the Refresh button.
onClickRefresh(st, light, dark) == Reload(st)

\* A change event on the select of a mode.
ChangeSelect(mode, value) ==
  /\ IF mode = "light"
       THEN /\ newLightTheme' = Find(ThemeValues, value)
            /\ UNCHANGED newDarkTheme
       ELSE /\ newDarkTheme' = Find(ThemeValues, value)
            /\ UNCHANGED newLightTheme
  /\ UNCHANGED <<browser, applyClicks, refreshClicks>>
  /\ UNCHANGED fetcherVars

ClickApply ==
  /\ applyClicks + refreshClicks < MaxClicks
  /\ applyClicks' = applyClicks + 1
  /\ browser' = onClickApply(browser, newLightTheme, newDarkTheme)
  /\ UNCHANGED <<newLightTheme, newDarkTheme, refreshClicks>>
  /\ UNCHANGED fetcherVars

ClickRefresh ==
  /\ applyClicks + refreshClicks < MaxClicks
  /\ refreshClicks' = refreshClicks + 1
  /\ browser' = onClickRefresh(browser, newLightTheme, newDarkTheme)
  /\ UNCHANGED <<newLightTheme, newDarkTheme, applyClicks>>
  /\ UNCHANGED fetcherVars

Next ==
  \/ ModuleLoad
  \/ Render
  \/ UseEffect
  \/ Refresh
  \/ \E k \in KindSet : \E outcome \in FetchOutcomes : FetchSettle(k, outcome)
  \/ \E k \in KindSet : ImportSettle(k)
  \/ RunReaction
  \/ Repair

Spec == Init /\ [][Next]_vars

\* The Settings component rendered on its own, as its tests render it.
SettingsNext ==
  \/ \E mode \in {"light", "dark"} : \E value \in SelectValues :
       ChangeSelect(mode, value)
  \/ ClickApply
  \/ ClickRefresh

SettingsSpec == Init /\ [][SettingsNext]_vars

\* ------------------------------------------------------------ properties
\* The GET of kind k ended in a load failure.
Failing(k) == request[k] \in {"networkError", "badStatus", "malformed"}

\* The GET of kind k ended, and not in a load failure.
Loaded(k) == request[k] \in {"null", "object", "objectWithError"}

\* Some cycle's then-callback has run.
CycleRan == calls > Len(reactions)

FailedSlice(k) == [InitialSlice(k) EXCEPT !.error = errorMessage]
LoadedSlice(k) == [body |-> <<k, 1>>, error |-> false]

\* C1 (as stated): under the Network strategy, once a cycle has run, every
\* failing resource's slice is its default with error "Failed to load data."
\* and every other resource's slice is its loaded payload with error false.
C1_Isolation ==
  (inProduction /\ CycleRan) =>
    \A k \in KindSet :
      /\ Failing(k) => slices[k] = FailedSlice(k)
      /\ Loaded(k) => slices[k] = LoadedSlice(k)

\* C2 (as stated): whatever made the load of a resource fail, the error
\* stored in its slice is the fixed string "Failed to load data.".
C2_FixedMessage ==
  \A k \in KindSet :
    (Failing(k) /\ cycleOf[k] > 0) => slices[k].error = errorMessage

\* C3 (as stated): every slice is either a payload with error false or the
\* default payload with a non-empty message.
C3_SliceInvariant ==
  \A k \in KindSet :
    \/ slices[k].error = false
    \/ /\ slices[k].body = InitialSlice(k).body
       /\ Truthy(slices[k].error)

\* C4 (as stated): a successfully loaded object that has a truthy field
\* named error is stored with error false.
C4_ErrorPrecedence ==
  \A k \in KindSet :
    (request[k] = "objectWithError" /\ cycleOf[k] > 0) =>
      slices[k].error = false

\* The loads of kind k started so far under the selected strategy.
LoadsStarted(k) == IF inProduction THEN getIssued[k] ELSE imported[k]

\* C5 (as stated): after n invocations of refresh (n >= 1), n loads of each
\* resource have been started.
C5_FreshLoad ==
  calls >= 1 => \A k \in KindSet : LoadsStarted(k) = calls

\* C6 (as stated): when a resource failed, became loadable afterwards, and a
\* refresh invoked after that has written its slice, the slice holds the
\* loaded payload with error false.
C6_Recovery ==
  \A k \in KindSet :
    (Failing(k) /\ repairedAt > 0 /\ cycleOf[k] > repairedAt) =>
      slices[k] = LoadedSlice(k)

\* C7 (as stated): in every state all five slices reflect the same cycle.
C7_Completeness ==
  \A k1, k2 \in KindSet : cycleOf[k1] = cycleOf[k2]

\* C8: while one of the five loads of the selected aggregate has not settled,
\* no step writes a slice, also not the slices of the loads that did settle.
C8_JoinAll ==
  [][(\E k \in KindSet : Selected[k].state = "pending") =>
       (slices' = slices /\ cycleOf' = cycleOf)]_vars

\* Four GETs have ended, one with a failure, one is still in flight, and a
\* cycle is waiting.
C8_Witness ==
  /\ inProduction
  /\ reactions # <<>>
  /\ Cardinality({k \in KindSet : request[k] = "inflight"}) = 1
  /\ \E k \in KindSet : Failing(k)
  /\ \E k \in KindSet : request[k] = "object"

\* C9: under the Network strategy the aggregate is never rejected, every
\* element whose GET ended is fulfilled with an object or null, and the
\* aggregate is fulfilled as soon as all five GETs have ended.
C9_NeverRejects ==
  inProduction =>
    /\ PromiseAll(fetched) # "rejected"
    /\ \A k \in KindSet :
         request[k] \in FetchOutcomes => fetched[k].state = "fulfilled"
    /\ (\A k \in KindSet : request[k] \in FetchOutcomes) =>
         PromiseAll(fetched) = "fulfilled"

\* All five GETs have ended, and each of the three kinds of failure occurred.
C9_Witness ==
  /\ inProduction
  /\ \A k \in KindSet : request[k] \in FetchOutcomes
  /\ \A f \in {"networkError", "badStatus", "malformed"} :
       \E k \in KindSet : request[k] = f
  /\ CycleRan

\* C10 (as stated): under the Packaged strategy no GET is issued, and under
\* the Network strategy no packaged-data import is made.
C10_Exclusive ==
  \A k \in KindSet :
    /\ ~inProduction => getIssued[k] = 0
    /\ inProduction => imported[k] = 0

\* C11: a slice holds its default value with error false until a cycle
\* writes it; the effect has run exactly once as soon as the component is
\* mounted and never before, and it is the first invocation of callback.
C11_Initialization ==
  /\ \A k \in KindSet : cycleOf[k] = 0 => slices[k] = InitialSlice(k)
  /\ phase = "mounted" => (effects = 1 /\ calls >= 1)
  /\ phase # "mounted" => (effects = 0 /\ calls = 0)

\* The component is mounted, callback was invoked a second time by a consumer,
\* and both cycles have written (so the component rendered again twice).
C11_Witness ==
  /\ phase = "mounted"
  /\ calls = 2
  /\ Len(settledOrder) = 2
  /\ \A k \in KindSet : cycleOf[k] = 2

\* The cycle whose then-callback ran last.
LastSettled == settledOrder[Len(settledOrder)]

C13_ConcurrentIssue ==
  inProduction =>
    ((\E k \in KindSet : request[k] \in FetchOutcomes) =>
       \A k \in KindSet : getIssued[k] >= 1 /\ request[k] # "none")

\* The last GET of the array has ended with a failure while the first one
\* is still in flight.
C13_Witness ==
  /\ inProduction
  /\ Failing(Kinds[5])
  /\ request[Kinds[1]] = "inflight"
  /\ request[Kinds[3]] = "object"

\* C14: only the run of a then-callback changes a slice, and once a cycle has
\* run no later cycle changes any slice.
C14_RefetchIdempotent ==
  [][/\ settledOrder' = settledOrder => slices' = slices
     /\ settledOrder # <<>> => slices' = slices]_vars

\* Two cycles have run, over a mix of failed and loaded resources.
C14_Witness ==
  /\ inProduction
  /\ Len(settledOrder) = 2
  /\ \E k \in KindSet : Failing(k)
  /\ \E k \in KindSet : request[k] = "object"
  /\ \A k \in KindSet : cycleOf[k] = 2

\* C17 (as stated): the update step of every cycle that has run performed
\* all five slice writes.
C17_Totality ==
  settledOrder # <<>> => \A k \in KindSet : cycleOf[k] = LastSettled

\* The modes for which a theme is selected.
SelectedModes ==
  {m \in {"light", "dark"} :
     (IF m = "light" THEN newLightTheme ELSE newDarkTheme) # undefined}

C16_Refresh ==
  [][refreshClicks' # refreshClicks =>
       /\ browser' = [browser EXCEPT !.reloads = @ + 1]
       /\ newLightTheme' = newLightTheme
       /\ newDarkTheme' = newDarkTheme]_vars

\* Refresh was clicked twice while a theme was selected for the light mode.
C16_Witness ==
  /\ refreshClicks = 2
  /\ newLightTheme = "1"
  /\ newDarkTheme = undefined
  /\ browser = [light |-> "initial", dark |-> "initial", setThemeCalls |-> 0,
                reloads |-> 2]

====
